---- MODULE Spec2Model ----
(***************************************************************************)
(* A model of the AAR packaging scripts: scripts/aar.py (the packager and  *)
(* its command line) and scripts/jitpack.py (the jitpack.io driver).       *)
(*                                                                         *)
(* Strings (file names, identifiers, file contents, the manifest text) are *)
(* sequences of one-character strings, so that glob's suffix match, the    *)
(* f-string interpolation and the archive entry names are computed, not    *)
(* assumed.  An optional value (an argparse option that may be absent) is  *)
(* a set with at most one element.                                          *)
(*                                                                         *)
(* The zip archive on disk is a bag of entries (name, data) plus a flag    *)
(* saying whether the central directory has been written (ZipFile.close).  *)
(* A bag keeps duplicate entries and drops only the order of the entries,  *)
(* which depends on the order in which the operating system lists a        *)
(* directory.                                                              *)
(*                                                                         *)
(* Input domain: the children of an ABI directory are regular readable     *)
(* files; the output path lies outside the library directory; opening and  *)
(* writing the output file succeed.                                        *)
(***************************************************************************)
EXTENDS Integers, Sequences, FiniteSets, Bags, TLC

\* ------------------------------------------------------------------ bounds
\* At most this many children in the library directory.
MaxChildren == 3
\* At most this many files in one ABI directory.
MaxFiles == 2

\* ------------------------------------------------------------------ names
ARM64 == <<"a","r","m","6","4","-","v","8","a">>
X86_64 == <<"x","8","6","_","6","4">>
RISCV64 == <<"r","i","s","c","v","6","4">>
NOTES_TXT == <<"n","o","t","e","s",".","t","x","t">>
LIBA_SO == <<"l","i","b","a",".","s","o">>
LIBB_SO == <<"l","i","b","b",".","s","o">>
LIBC_SO_1 == <<"l","i","b","c",".","s","o",".","1">>
CLASSES_JAR == <<"c","l","a","s","s","e","s",".","j","a","r">>
COM_EXAMPLE == <<"c","o","m",".","e","x","a","m","p","l","e">>
ORG_LG == <<"o","r","g",".","l","g">>
FOO == <<"f","o","o">>
VVL == <<"v","v","l">>
V1_0 == <<"1",".","0">>
NDK_PATH == <<"/","n","d","k">>

\* Names a child of the library directory may have, and names a file of an
\* ABI directory may have.
ChildPool == {ARM64, X86_64, RISCV64, NOTES_TXT}
FilePool == {LIBA_SO, LIBB_SO, LIBC_SO_1}

\* ------------------------------------------------------------------ strings
Digit(d) == <<"0","1","2","3","4","5","6","7","8","9">>[d + 1]

RECURSIVE NatToStr(_)
NatToStr(n) == IF n < 10 THEN <<Digit(n)>> ELSE NatToStr(n \div 10) \o <<Digit(n % 10)>>

\* str(int), as the f-string formats min_sdk_version.
IntToStr(n) == IF n < 0 THEN <<"-">> \o NatToStr(-n) ELSE NatToStr(n)

NONE_STR == <<"N","o","n","e">>

\* The f-string formatting of an optional string: str(None) is "None".
PyStr(opt) == IF opt = {} THEN NONE_STR ELSE CHOOSE s \in opt : TRUE

\* ------------------------------------------------------------------ manifest
XML_DECL == "<?xml version=\"1.0\" encoding=\"utf-8\"?>\n"
MANIFEST_OPEN == "<manifest xmlns:android=\"http://schemas.android.com/apk/res/android\"\n"
PACKAGE_OPEN == "    package=\""
PACKAGE_CLOSE == "\" >\n"
USES_SDK_OPEN == "    <uses-sdk android:minSdkVersion=\""
USES_SDK_CLOSE == "\" />\n"
MANIFEST_CLOSE == "</manifest>\n"

\* The dedented manifest text: the literal segments are one element each,
\* the interpolated values one element per character.
ManifestText(group_id, artifact_id, min_sdk_version) ==
    <<XML_DECL, MANIFEST_OPEN, PACKAGE_OPEN>>
        \o PyStr(group_id) \o <<".">> \o PyStr(artifact_id)
        \o <<PACKAGE_CLOSE, USES_SDK_OPEN>>
        \o IntToStr(min_sdk_version)
        \o <<USES_SDK_CLOSE, MANIFEST_CLOSE>>

MANIFEST_NAME == <<"AndroidManifest.xml">>

\* ------------------------------------------------------------------ files
SO_SUFFIX == <<".","s","o">>

EndsWith(name, suffix) ==
    /\ Len(name) >= Len(suffix)
    /\ SubSeq(name, Len(name) - Len(suffix) + 1, Len(name)) = suffix

\* The bytes stored in the file dir/name: every file holds different bytes.
BytesAt(dir, name) == dir \o <<"/">> \o name

Listings == {S \in SUBSET FilePool : Cardinality(S) <= MaxFiles}

PlainFile == [kind |-> "file", files |-> [n \in {} |-> <<>>]]
AbiDir(dir, S) == [kind |-> "dir", files |-> [n \in S |-> BytesAt(dir, n)]]

ChildrenOf(name) == {PlainFile} \cup {AbiDir(name, S) : S \in Listings}

\* Every library directory within the bounds.
Trees ==
    UNION {
        {t \in [D -> UNION {ChildrenOf(n) : n \in D}] :
            \A n \in D : t[n] \in ChildrenOf(n)} :
        D \in {D \in SUBSET ChildPool : Cardinality(D) <= MaxChildren}}

MissingDir == [exists |-> FALSE, children |-> [n \in {} |-> PlainFile]]
LibraryDir(t) == [exists |-> TRUE, children |-> t]

\* ------------------------------------------------------------------ state
VARIABLES
    argv,        \* the packager's command line: options that may be absent
    libdir,      \* the library directory: [exists, children]
    out,         \* the output file: [exists, entries, closed]
    pc,          \* where the packager is
    args,        \* generate_aar's parameters: [group_id, artifact_id, min_sdk_version]
    todo,        \* children library_dir.iterdir() has still to yield
    visited,     \* children iterdir() has yielded and glob has read
    abi_dir,     \* the loop variable (<<>> outside the loop)
    libs,        \* entries of the current glob result not yet written
    result,      \* "none" | "ok" | "raised"
    error,       \* [type, path]: the exception that left generate_aar
    prev,        \* the archive the previous successful run left: [has, entries]
    env,         \* the driver's environment: variable -> optional value
    ndk_meta,    \* <ANDROID_NDK_HOME>/meta/abis.json: [state, abis]
    jpc,         \* where the driver is
    info,        \* the driver's (group_id, artifact_id, version)
    abis,        \* the ABIs passed to the native build
    calls,       \* the driver's steps started so far, in order
    completed,   \* the driver's steps that returned normally
    aar_dir,     \* whether build-android/aar exists
    exit_msg     \* the message sys.exit() was given (<<>> if none)

pvars == <<argv, libdir, out, pc, args, todo, visited, abi_dir, libs, result, error, prev>>
jvars == <<env, ndk_meta, jpc, info, abis, calls, completed, aar_dir, exit_msg>>
vars == <<argv, libdir, out, pc, args, todo, visited, abi_dir, libs, result, error, prev,
          env, ndk_meta, jpc, info, abis, calls, completed, aar_dir, exit_msg>>

NoArgs == [group_id |-> {}, artifact_id |-> {}, min_sdk_version |-> 0]
NoError == [type |-> "none", path |-> <<>>]
NoFile == [exists |-> FALSE, entries |-> EmptyBag, closed |-> FALSE]
NoPrev == [has |-> FALSE, entries |-> EmptyBag]

Entry(name, data) == [name |-> name, data |-> data]

\* An archive left at the output path by some earlier build of other inputs.
StaleArchive ==
    [exists |-> TRUE,
     entries |-> SetToBag({Entry(CLASSES_JAR, <<"P","K">>)}),
     closed |-> TRUE]

\* ------------------------------------------------------------------ aar.py: main
\* --min-sdk-version's default.
DefaultMinSdkVersion == 26

\* Faulty variant: another default for --min-sdk-version.
ParseArgsDefault21(a) ==
    [group_id |-> a.group_id,
     artifact_id |-> a.artifact_id,
     min_sdk_version |->
        IF a.min_sdk_version = {} THEN 21
        ELSE CHOOSE n \in a.min_sdk_version : TRUE]

\* parser.parse_args(): an absent --group-id or --artifact-id is None, an
\* absent --min-sdk-version is the default.
ParseArgs(a) ==
    [group_id |-> a.group_id,
     artifact_id |-> a.artifact_id,
     min_sdk_version |->
        IF a.min_sdk_version = {} THEN DefaultMinSdkVersion
        ELSE CHOOSE n \in a.min_sdk_version : TRUE]

\* main(): parse the command line and call generate_aar.
AarMain ==
    /\ pc = "start"
    /\ args' = ParseArgs(argv)
    /\ pc' = "call"
    /\ UNCHANGED <<argv, libdir, out, todo, visited, abi_dir, libs, result, error, prev>>
    /\ UNCHANGED jvars

\* ------------------------------------------------------------------ generate_aar
\* Faulty variant: mode "a", which keeps the entries already in the file.
ZipOpenAppend(file) ==
    [exists |-> TRUE, entries |-> file.entries, closed |-> FALSE]

\* ZipFile(output_path, mode="w"): the file is created or truncated; it has
\* no central directory until it is closed.
ZipOpen(file) ==
    [exists |-> TRUE, entries |-> EmptyBag, closed |-> FALSE]

\* writestr() and write(): the entry's data goes to the file.
ZipAdd(file, e) == [file EXCEPT !.entries = @ (+) SetToBag({e})]

\* ZipFile.close(), which the with statement calls on a normal exit and on
\* an exception alike: the central directory is written.
ZipClose(file) == [file EXCEPT !.closed = TRUE]

OpenZip ==
    /\ pc = "call"
    /\ out' = ZipOpen(out)
    /\ pc' = "opened"
    /\ UNCHANGED <<argv, libdir, args, todo, visited, abi_dir, libs, result, error, prev>>
    /\ UNCHANGED jvars

WriteManifest ==
    /\ pc = "opened"
    /\ out' = ZipAdd(out, Entry(MANIFEST_NAME,
                ManifestText(args.group_id, args.artifact_id, args.min_sdk_version)))
    /\ pc' = "iterdir"
    /\ UNCHANGED <<argv, libdir, args, todo, visited, abi_dir, libs, result, error, prev>>
    /\ UNCHANGED jvars

\* library_dir.iterdir(): every child of the directory, of any kind.
Iterdir(dir) == DOMAIN dir.children

IterdirStart ==
    /\ pc = "iterdir"
    /\ libdir.exists
    /\ todo' = Iterdir(libdir)
    /\ pc' = "loop"
    /\ UNCHANGED <<argv, libdir, out, args, visited, abi_dir, libs, result, error, prev>>
    /\ UNCHANGED jvars

\* iterdir() of a directory that does not exist raises FileNotFoundError,
\* which leaves the with block.
IterdirMissing ==
    /\ pc = "iterdir"
    /\ ~libdir.exists
    /\ out' = ZipClose(out)
    /\ result' = "raised"
    /\ error' = [type |-> "FileNotFoundError", path |-> <<>>]
    /\ pc' = "done"
    /\ UNCHANGED <<argv, libdir, args, todo, visited, abi_dir, libs, prev>>
    /\ UNCHANGED jvars

\* Faulty variant: glob("*"), every child of abi_dir.
GlobAll(dir, name) == DOMAIN dir.children[name].files

\* abi_dir.glob("*.so"): the children of abi_dir whose name ends in ".so";
\* nothing when abi_dir is not a directory.
Glob(dir, name) ==
    IF dir.children[name].kind = "dir"
    THEN {n \in DOMAIN dir.children[name].files : EndsWith(n, SO_SUFFIX)}
    ELSE {}

\* for abi_dir in library_dir.iterdir(): libs = list(abi_dir.glob("*.so"))
NextAbiDir ==
    /\ pc = "loop"
    /\ \E d \in todo :
        /\ abi_dir' = d
        /\ libs' = Glob(libdir, d)
        /\ todo' = todo \ {d}
        /\ visited' = visited \cup {d}
    /\ pc' = "check"
    /\ UNCHANGED <<argv, libdir, out, args, result, error, prev>>
    /\ UNCHANGED jvars

\* Faulty variant: the check for an empty match set is missing.
NeverEmpty(found) == FALSE

\* if not libs
NoLibs(found) == found = {}

\* Faulty variant: the error is recorded and the loop goes on.
PcAfterRaiseContinue == "loop"

\* The raise leaves the loop and the function.
PcAfterRaise == "done"

\* raise RuntimeError(f"No libraries found matching {abi_dir}/*.so"), which
\* leaves the with block.
RaiseNoLibraries ==
    /\ pc = "check"
    /\ NoLibs(libs)
    /\ out' = ZipClose(out)
    /\ result' = "raised"
    /\ error' = [type |-> "RuntimeError", path |-> abi_dir]
    /\ pc' = PcAfterRaise
    /\ UNCHANGED <<argv, libdir, args, todo, visited, abi_dir, libs, prev>>
    /\ UNCHANGED jvars

\* f"jni/{abi_dir.name}/{lib.name}"
ArcName(dir_name, lib_name) == <<"j","n","i","/">> \o dir_name \o <<"/">> \o lib_name

\* for lib in libs: zip_file.write(lib, arcname=...), once the check passed
WriteLib ==
    /\ pc \in {"check", "write"}
    /\ pc = "check" => ~NoLibs(libs)
    /\ \E l \in libs :
        /\ out' = ZipAdd(out, Entry(ArcName(abi_dir, l), libdir.children[abi_dir].files[l]))
        /\ libs' = libs \ {l}
    /\ pc' = "write"
    /\ UNCHANGED <<argv, libdir, args, todo, visited, abi_dir, result, error, prev>>
    /\ UNCHANGED jvars

\* The inner loop has written every library: on to the next child.
EndOfLibs ==
    /\ pc \in {"check", "write"}
    /\ pc = "check" => ~NoLibs(libs)
    /\ libs = {}
    /\ pc' = "loop"
    /\ UNCHANGED <<argv, libdir, out, args, todo, visited, abi_dir, libs, result, error, prev>>
    /\ UNCHANGED jvars

\* The loop ends, the with block closes the archive, generate_aar returns.
CloseZip ==
    /\ pc = "loop"
    /\ todo = {}
    /\ out' = ZipClose(out)
    /\ result' = "ok"
    /\ pc' = "done"
    /\ UNCHANGED <<argv, libdir, args, todo, visited, abi_dir, libs, error, prev>>
    /\ UNCHANGED jvars

\* The packager is run again on the same command line and the same files.
Rerun ==
    /\ pc = "done"
    /\ jpc = "off"
    /\ prev' = IF result = "ok" THEN [has |-> TRUE, entries |-> out.entries] ELSE prev
    /\ pc' = "start"
    /\ args' = NoArgs
    /\ todo' = {}
    /\ visited' = {}
    /\ abi_dir' = <<>>
    /\ libs' = {}
    /\ result' = "none"
    /\ error' = NoError
    /\ UNCHANGED <<argv, libdir, out>>
    /\ UNCHANGED jvars


\* ------------------------------------------------------------------ jitpack.py
GROUP == "GROUP"
ARTIFACT == "ARTIFACT"
VERSION == "VERSION"
ANDROID_NDK_HOME == "ANDROID_NDK_HOME"
EnvVars == {GROUP, ARTIFACT, VERSION, ANDROID_NDK_HOME}

\* The value a variable has when it is set.
EnvValue(v) ==
    CASE v = GROUP -> COM_EXAMPLE
      [] v = ARTIFACT -> VVL
      [] v = VERSION -> V1_0
      [] OTHER -> NDK_PATH

Environments == {e \in [EnvVars -> SUBSET {COM_EXAMPLE, VVL, V1_0, NDK_PATH}] :
                    \A v \in EnvVars : e[v] \in {{}, {EnvValue(v)}}}

\* Faulty variant: the variables are read in the opposite order.
LookupOrderReversed == <<VERSION, ARTIFACT, GROUP>>

\* The order in which the tuple expression reads os.environ.
LookupOrder == <<GROUP, ARTIFACT, VERSION>>

\* The key of the first lookup that raises KeyError ("" when none does).
RECURSIVE FirstKeyError(_, _)
FirstKeyError(e, keys) ==
    IF keys = <<>> THEN ""
    ELSE IF e[Head(keys)] = {} THEN Head(keys)
    ELSE FirstKeyError(e, Tail(keys))

Value(e, v) == CHOOSE s \in e[v] : TRUE

\* android.MIN_SDK_VERSION
AndroidMinSdkVersion == 26

\* The ABIs the NDK metadata may list, in the file's order.
MetaAbis == <<ARM64, X86_64, RISCV64>>

\* abis.json: absent, valid (each ABI with its "default" flag), or not JSON.
MetaFiles ==
    {[state |-> "absent", abis |-> <<>>], [state |-> "corrupt", abis |-> <<>>]}
    \cup {[state |-> "valid",
           abis |-> [i \in 1..Len(MetaAbis) |-> [name |-> MetaAbis[i], default |-> f[i]]]] :
            f \in [1..Len(MetaAbis) -> BOOLEAN]}

IsDefault(a) == a.default

\* for name, data in abis_meta.items(): if data["default"]: yield name
DefaultAbis(meta) ==
    LET kept == SelectSeq(meta.abis, IsDefault)
    IN [i \in 1..Len(kept) |-> kept[i].name]

Range(seq) == {seq[i] : i \in 1..Len(seq)}

\* What the native build may leave at <build_dir>/lib: nothing, or one
\* directory per requested ABI.
BuildOutputs(requested) ==
    {MissingDir} \cup
    {LibraryDir(t) : t \in {t \in Trees :
        /\ DOMAIN t = Range(requested)
        /\ \A n \in DOMAIN t : t[n].kind = "dir"}}

\* Faulty variant: the message is printed and main goes on to the build.
JpcAfterExitWarns == "build"

\* sys.exit() raises SystemExit, which nothing catches: the process ends.
JpcAfterExit == "exited"

\* artifact_info_from_env(), every variable set
ArtifactInfoOk ==
    /\ jpc = "start"
    /\ FirstKeyError(env, LookupOrder) = ""
    /\ info' = <<Value(env, GROUP), Value(env, ARTIFACT), Value(env, VERSION)>>
    /\ calls' = Append(calls, "env")
    /\ completed' = completed \cup {"env"}
    /\ jpc' = "abis"
    /\ UNCHANGED <<env, ndk_meta, abis, aar_dir, exit_msg>>
    /\ UNCHANGED pvars

\* artifact_info_from_env(): sys.exit(f"{ex.args[0]} must be set in the environment")
ArtifactInfoExit ==
    /\ jpc = "start"
    /\ FirstKeyError(env, LookupOrder) # ""
    /\ calls' = Append(calls, "env")
    /\ exit_msg' = <<FirstKeyError(env, LookupOrder), " must be set in the environment">>
    /\ jpc' = JpcAfterExit
    /\ UNCHANGED <<env, ndk_meta, info, abis, completed, aar_dir>>
    /\ UNCHANGED pvars

\* list(ndk_default_abis()), evaluated before android.build is called
NdkDefaultAbisOk ==
    /\ jpc = "abis"
    /\ env[ANDROID_NDK_HOME] # {}
    /\ ndk_meta.state = "valid"
    /\ abis' = DefaultAbis(ndk_meta)
    /\ calls' = Append(calls, "abis")
    /\ completed' = completed \cup {"abis"}
    /\ jpc' = "build"
    /\ UNCHANGED <<env, ndk_meta, info, aar_dir, exit_msg>>
    /\ UNCHANGED pvars

\* sys.exit("ANDROID_NDK_HOME must be set in the environment")
NdkHomeUnset ==
    /\ jpc = "abis"
    /\ env[ANDROID_NDK_HOME] = {}
    /\ calls' = Append(calls, "abis")
    /\ exit_msg' = <<ANDROID_NDK_HOME, " must be set in the environment">>
    /\ jpc' = JpcAfterExit
    /\ UNCHANGED <<env, ndk_meta, info, abis, completed, aar_dir>>
    /\ UNCHANGED pvars

\* sys.exit(f"{abis_meta_path} does not exist. ...")
NdkMetaAbsent ==
    /\ jpc = "abis"
    /\ env[ANDROID_NDK_HOME] # {}
    /\ ndk_meta.state = "absent"
    /\ calls' = Append(calls, "abis")
    /\ exit_msg' = <<"meta/abis.json", " does not exist">>
    /\ jpc' = JpcAfterExit
    /\ UNCHANGED <<env, ndk_meta, info, abis, completed, aar_dir>>
    /\ UNCHANGED pvars

\* json.load raises on a file that is not JSON; nothing catches it.
NdkMetaCorrupt ==
    /\ jpc = "abis"
    /\ env[ANDROID_NDK_HOME] # {}
    /\ ndk_meta.state = "corrupt"
    /\ calls' = Append(calls, "abis")
    /\ jpc' = "crashed"
    /\ UNCHANGED <<env, ndk_meta, info, abis, completed, aar_dir, exit_msg>>
    /\ UNCHANGED pvars

\* android.build("Release", abis, "c++_static") returns the build directory
AndroidBuildOk ==
    /\ jpc = "build"
    /\ libdir' \in BuildOutputs(abis)
    /\ calls' = Append(calls, "build")
    /\ completed' = completed \cup {"build"}
    /\ jpc' = "mkdir"
    /\ UNCHANGED <<env, ndk_meta, info, abis, aar_dir, exit_msg>>
    /\ UNCHANGED <<argv, out, pc, args, todo, visited, abi_dir, libs, result, error, prev>>

\* android.build fails: the exception leaves main
AndroidBuildFails ==
    /\ jpc = "build"
    /\ calls' = Append(calls, "build")
    /\ jpc' = "crashed"
    /\ UNCHANGED <<env, ndk_meta, info, abis, completed, aar_dir, exit_msg>>
    /\ UNCHANGED pvars

\* aar_dir.mkdir(parents=True, exist_ok=True)
MkdirOk ==
    /\ jpc = "mkdir"
    /\ aar_dir' = TRUE
    /\ calls' = Append(calls, "mkdir")
    /\ completed' = completed \cup {"mkdir"}
    /\ jpc' = "package"
    /\ UNCHANGED <<env, ndk_meta, info, abis, exit_msg>>
    /\ UNCHANGED pvars

\* mkdir raises OSError
MkdirFails ==
    /\ jpc = "mkdir"
    /\ calls' = Append(calls, "mkdir")
    /\ jpc' = "crashed"
    /\ UNCHANGED <<env, ndk_meta, info, abis, completed, aar_dir, exit_msg>>
    /\ UNCHANGED pvars

\* generate_aar(aar, build_dir / "lib", group_id, artifact_id, android.MIN_SDK_VERSION)
CallGenerateAar ==
    /\ jpc = "package"
    /\ args' = [group_id |-> {info[1]}, artifact_id |-> {info[2]},
                min_sdk_version |-> AndroidMinSdkVersion]
    /\ pc' = "call"
    /\ calls' = Append(calls, "generate_aar")
    /\ jpc' = "packaging"
    /\ UNCHANGED <<env, ndk_meta, info, abis, completed, aar_dir, exit_msg>>
    /\ UNCHANGED <<argv, libdir, out, todo, visited, abi_dir, libs, result, error, prev>>

\* Faulty variant: the exception is swallowed and main goes on to install.
JpcAfterRaiseInstall == "install"

\* An exception of generate_aar leaves main.
JpcAfterRaise == "crashed"

\* generate_aar returned
GenerateAarReturns ==
    /\ jpc = "packaging"
    /\ pc = "done"
    /\ result = "ok"
    /\ completed' = completed \cup {"generate_aar"}
    /\ jpc' = "install"
    /\ UNCHANGED <<env, ndk_meta, info, abis, calls, aar_dir, exit_msg>>
    /\ UNCHANGED pvars

\* generate_aar raised
GenerateAarRaises ==
    /\ jpc = "packaging"
    /\ pc = "done"
    /\ result = "raised"
    /\ jpc' = JpcAfterRaise
    /\ UNCHANGED <<env, ndk_meta, info, abis, calls, completed, aar_dir, exit_msg>>
    /\ UNCHANGED pvars

\* install(aar, group_id, artifact_id, version): mvn exits with 0
InstallOk ==
    /\ jpc = "install"
    /\ calls' = Append(calls, "install")
    /\ completed' = completed \cup {"install"}
    /\ jpc' = "finished"
    /\ UNCHANGED <<env, ndk_meta, info, abis, aar_dir, exit_msg>>
    /\ UNCHANGED pvars

\* subprocess.run(..., check=True) raises CalledProcessError
InstallFails ==
    /\ jpc = "install"
    /\ calls' = Append(calls, "install")
    /\ jpc' = "crashed"
    /\ UNCHANGED <<env, ndk_meta, info, abis, completed, aar_dir, exit_msg>>
    /\ UNCHANGED pvars

\* ------------------------------------------------------------------ specifications
GroupOptions == {{}, {COM_EXAMPLE}, {ORG_LG}}
ArtifactOptions == {{}, {FOO}, {VVL}}
MinSdkOptions == {{}, {9}, {21}, {100}}

PackagerIdle ==
    /\ args = NoArgs
    /\ todo = {}
    /\ visited = {}
    /\ abi_dir = <<>>
    /\ libs = {}
    /\ result = "none"
    /\ error = NoError
    /\ prev = NoPrev

DriverOff ==
    /\ env = [v \in EnvVars |-> {}]
    /\ ndk_meta = [state |-> "absent", abis |-> <<>>]
    /\ jpc = "off"
    /\ info = <<>>
    /\ abis = <<>>
    /\ calls = <<>>
    /\ completed = {}
    /\ aar_dir = FALSE
    /\ exit_msg = <<>>

\* The packager started from its command line on any library directory.
Init ==
    /\ argv \in [group_id : {{COM_EXAMPLE}}, artifact_id : {{FOO}},
                 min_sdk_version : {{}, {21}}]
    /\ libdir \in {MissingDir} \cup {LibraryDir(t) : t \in Trees}
    /\ out \in {NoFile, StaleArchive}
    /\ pc = "start"
    /\ PackagerIdle
    /\ DriverOff

Next ==
    \/ AarMain
    \/ OpenZip
    \/ WriteManifest
    \/ IterdirStart
    \/ IterdirMissing
    \/ NextAbiDir
    \/ RaiseNoLibraries
    \/ WriteLib
    \/ EndOfLibs
    \/ CloseZip
    \/ Rerun

Spec == Init /\ [][Next]_vars

\* A few library directories, every command line.
CliTrees ==
    {t \in Trees : DOMAIN t \subseteq {ARM64, NOTES_TXT}
                   /\ \A n \in DOMAIN t : DOMAIN t[n].files \subseteq {LIBA_SO, LIBC_SO_1}}

InitCli ==
    /\ argv \in [group_id : GroupOptions, artifact_id : ArtifactOptions,
                 min_sdk_version : MinSdkOptions]
    /\ libdir \in {MissingDir} \cup {LibraryDir(t) : t \in CliTrees}
    /\ out = NoFile
    /\ pc = "start"
    /\ PackagerIdle
    /\ DriverOff

SpecCli == InitCli /\ [][Next]_vars

\* The driver started by jitpack.yml in a fresh checkout.
InitJitpack ==
    /\ argv = [group_id |-> {}, artifact_id |-> {}, min_sdk_version |-> {}]
    /\ libdir = MissingDir
    /\ out = NoFile
    /\ pc = "idle"
    /\ PackagerIdle
    /\ env \in Environments
    /\ ndk_meta \in MetaFiles
    /\ jpc = "start"
    /\ info = <<>>
    /\ abis = <<>>
    /\ calls = <<>>
    /\ completed = {}
    /\ aar_dir = FALSE
    /\ exit_msg = <<>>

NextJitpack ==
    \/ ArtifactInfoOk
    \/ ArtifactInfoExit
    \/ NdkDefaultAbisOk
    \/ NdkHomeUnset
    \/ NdkMetaAbsent
    \/ NdkMetaCorrupt
    \/ AndroidBuildOk
    \/ AndroidBuildFails
    \/ MkdirOk
    \/ MkdirFails
    \/ CallGenerateAar
    \/ OpenZip
    \/ WriteManifest
    \/ IterdirStart
    \/ IterdirMissing
    \/ NextAbiDir
    \/ RaiseNoLibraries
    \/ WriteLib
    \/ EndOfLibs
    \/ CloseZip
    \/ GenerateAarReturns
    \/ GenerateAarRaises
    \/ InstallOk
    \/ InstallFails

SpecJitpack == InitJitpack /\ [][NextJitpack]_vars


\* ------------------------------------------------------------------ properties
AbiDirs == {n \in DOMAIN libdir.children : libdir.children[n].kind = "dir"}

\* The files of ABI directory d that match *.so.
Libraries(d) == {f \in DOMAIN libdir.children[d].files : EndsWith(f, SO_SUFFIX)}

LibraryEntry(d, f) ==
    [name |-> <<"j","n","i","/">> \o d \o <<"/">> \o f, data |-> libdir.children[d].files[f]]

\* One entry jni/<abi>/<file> per library of the directories D.
LibraryEntries(D) == UNION {{LibraryEntry(d, f) : f \in Libraries(d)} : d \in D \cap AbiDirs}

Written == BagToSet(out.entries)

ManifestEntries == {e \in Written : e.name = MANIFEST_NAME}

NoDuplicates ==
    /\ \A e \in Written : CopiesIn(e, out.entries) = 1
    /\ \A e1, e2 \in Written : e1.name = e2.name => e1 = e2

FailedForNoLibraries == pc = "done" /\ result = "raised" /\ error.type = "RuntimeError"

\* C1: after a successful generate_aar the archive holds exactly one
\* AndroidManifest.xml entry and one entry jni/<abi>/<file> per matching file of
\* every ABI directory, with the file's bytes, and nothing else, no name twice.
C1_ArchiveIsManifestPlusLibraries ==
    (pc = "done" /\ result = "ok") =>
        /\ out.exists /\ out.closed
        /\ \A d \in AbiDirs : Libraries(d) # {}
        /\ Cardinality(ManifestEntries) = 1
        /\ Written \ ManifestEntries = LibraryEntries(AbiDirs)
        /\ NoDuplicates

C1_Witness ==
    /\ pc = "done" /\ result = "ok"
    /\ Cardinality(AbiDirs) >= 2
    /\ \E d \in AbiDirs : Cardinality(Libraries(d)) >= 2
    /\ \E d \in AbiDirs : DOMAIN libdir.children[d].files # Libraries(d)

\* C2: when some ABI directory holds no matching file, generate_aar never
\* reports success, and once it has ended it has raised, whatever the order in
\* which the directories were visited.
C2_EmptyAbiDirFails ==
    (libdir.exists /\ \E d \in AbiDirs : Libraries(d) = {}) =>
        /\ result # "ok"
        /\ pc = "done" => result = "raised"

C2_Witness ==
    /\ FailedForNoLibraries
    /\ \E d \in visited \cap AbiDirs : Libraries(d) # {}
    /\ \E d \in todo \cap AbiDirs : Libraries(d) # {}
    /\ \E d \in AbiDirs : Libraries(d) = {}

\* C3: after generate_aar failed for an ABI directory without libraries, the
\* output file does not exist or is not a closed, well-formed archive.
C3_FailureLeavesNoUsableArchive ==
    FailedForNoLibraries => ~(out.exists /\ out.closed)

\* The text between the element `open` of a manifest and the next `close`.
AttrValue(text, open, close) ==
    LET i == CHOOSE i \in 1..Len(text) : text[i] = open
        j == CHOOSE j \in (i + 1)..Len(text) :
                /\ text[j] = close
                /\ \A k \in (i + 1)..(j - 1) : text[k] # close
    IN SubSeq(text, i + 1, j - 1)

DigitValue(c) == CHOOSE d \in 0..9 : Digit(d) = c

RECURSIVE StrToNat(_)
StrToNat(str) ==
    IF Len(str) = 0 THEN 0
    ELSE 10 * StrToNat(SubSeq(str, 1, Len(str) - 1)) + DigitValue(str[Len(str)])

Given(opt) == CHOOSE x \in opt : TRUE

\* C4: the manifest's package attribute is "<group_id>.<artifact_id>" and its
\* minSdkVersion is the --min-sdk-version given, 26 when the option is absent.
C4_ManifestAttributes ==
    \A e \in ManifestEntries :
        /\ AttrValue(e.data, PACKAGE_OPEN, PACKAGE_CLOSE) =
              (IF argv.group_id = {} THEN NONE_STR ELSE Given(argv.group_id))
              \o <<".">>
              \o (IF argv.artifact_id = {} THEN NONE_STR ELSE Given(argv.artifact_id))
        /\ StrToNat(AttrValue(e.data, USES_SDK_OPEN, USES_SDK_CLOSE)) =
              (IF argv.min_sdk_version = {} THEN 26 ELSE Given(argv.min_sdk_version))

C4_Witness ==
    /\ pc = "done" /\ result = "ok"
    /\ argv.min_sdk_version = {}
    /\ argv.group_id = {ORG_LG} /\ argv.artifact_id = {VVL}
    /\ ManifestEntries # {}

C5_Order == <<"env", "abis", "build", "mkdir", "generate_aar", "install">>

\* C5: the driver's steps start in the fixed order, each only after every
\* earlier one returned normally: no installer after a failed packager, no
\* packager after a failed build.
C5_StepsInOrderFailFast ==
    /\ Len(calls) <= Len(C5_Order)
    /\ \A i \in 1..Len(calls) : calls[i] = C5_Order[i]
    /\ \A i \in 1..Len(calls) : \A k \in 1..(i - 1) : calls[k] \in completed
    /\ "install" \in Range(calls) => (pc = "done" /\ result = "ok")
    /\ "generate_aar" \in Range(calls) => "build" \in completed

C5_Witness ==
    /\ jpc = "finished"
    /\ calls = C5_Order
    /\ Cardinality(Written) >= 3

ConfigurationError ==
    \/ \E v \in EnvVars : env[v] = {}
    \/ ndk_meta.state = "absent"

\* C6: with GROUP, ARTIFACT, VERSION or ANDROID_NDK_HOME unset, or abis.json
\* absent, the driver never invokes the build, creates no archive directory and
\* no archive file, never invokes the installer, and ends by sys.exit.
C6_ConfigErrorNoPartialWork ==
    ConfigurationError =>
        /\ Range(calls) \subseteq {"env", "abis"}
        /\ ~aar_dir
        /\ ~out.exists
        /\ pc = "idle"
        /\ jpc \in {"start", "abis", "exited"}

C6_Witness ==
    /\ jpc = "exited"
    /\ "env" \in completed
    /\ env[ANDROID_NDK_HOME] # {}
    /\ ndk_meta.state = "absent"

\* C7: a successful run leaves the same entries, names and contents, as the
\* previous successful run on the same inputs, and no entry of an archive that
\* was at the output path before survives unless the inputs produce it.
C7_RerunSameArchive ==
    /\ (pc = "done" /\ result = "ok" /\ prev.has) => out.entries = prev.entries
    /\ pc = "done" =>
          /\ Written \ ManifestEntries \subseteq LibraryEntries(AbiDirs)
          /\ NoDuplicates

C7_Witness ==
    /\ pc = "done" /\ result = "ok" /\ prev.has
    /\ Cardinality(Written) >= 3

Unset3 == {v \in {GROUP, ARTIFACT, VERSION} : env[v] = {}}

\* C8: with more than one of GROUP, ARTIFACT, VERSION unset the driver exits
\* with a message naming the first unset one in that order, and only it.
C8_FirstMissingNamed ==
    (Cardinality(Unset3) > 1 /\ jpc = "exited") =>
        /\ Len(exit_msg) = 2
        /\ exit_msg[1] = (IF env[GROUP] = {} THEN GROUP
                          ELSE IF env[ARTIFACT] = {} THEN ARTIFACT ELSE VERSION)
        /\ exit_msg[2] \notin EnvVars

C8_Witness ==
    /\ jpc = "exited"
    /\ env[GROUP] # {}
    /\ Unset3 = {ARTIFACT, VERSION}

\* The first child found without libraries has been detected.
NoLibrariesDetected ==
    \/ pc = "check" /\ libs = {}
    \/ error.type = "RuntimeError"

\* C9: from the moment a child without libraries is detected the archive holds
\* exactly the manifest and the libraries of the children visited before it;
\* the call ends there and the children not yet visited are never read.
C9_FailsAtFirstEmptyDir ==
    /\ NoLibrariesDetected =>
          /\ Cardinality(ManifestEntries) = 1
          /\ Written \ ManifestEntries = LibraryEntries(visited \ {abi_dir})
          /\ NoDuplicates
          /\ visited \cap todo = {}
          /\ visited \cup todo = DOMAIN libdir.children
    /\ error.type = "RuntimeError" => (pc = "done" /\ error.path = abi_dir)

C9_Witness ==
    /\ error.type = "RuntimeError"
    /\ abi_dir \in AbiDirs
    /\ \E d \in (visited \ {abi_dir}) : d \in AbiDirs /\ Libraries(d) # {}
    /\ \E d \in todo : d \in AbiDirs /\ Libraries(d) # {}

\* C10: a plain file among the children of the library directory is not an ABI
\* directory: when every subdirectory holds a matching file the call succeeds
\* and the plain file adds no entry.
C10_PlainFilesIgnored ==
    (pc = "done" /\ libdir.exists /\ \A d \in AbiDirs : Libraries(d) # {}) =>
        /\ result = "ok"
        /\ Written \ ManifestEntries = LibraryEntries(AbiDirs)


====
